---- MODULE Spec2Model ----
(***************************************************************************)
(* Model of kinship.py: the Person graph built by Family.__init__, the     *)
(* breadth-first traversal Person.connections, and Person.relation_to /    *)
(* Family.relation.                                                        *)
(*                                                                         *)
(* A path is a sequence of the one-character strings "P" and "S"; a        *)
(* combined code is a path, the string ":" and a path.  A Python dict is a *)
(* sequence of <<key, value>> entries in insertion order, which is the     *)
(* order Python iterates it in.                                            *)
(***************************************************************************)
EXTENDS Integers, Sequences, FiniteSets

VARIABLES
    dict,      \* the loaded dataset handed to Family(...)
    status,    \* "loaded" | "built" | "failed" (Family.__init__ raised)
    gender,    \* Person.gender  of every registered person
    parents,   \* Person.parents of every registered person (a list)
    spouse,    \* Person.spouse  of every registered person (a person or None)
    pc,        \* position of the running connections(): "idle" | "loop" | "returned"
    start,     \* the person connections() was called on
    cdict,     \* connections(): the cdict local
    queue,     \* connections(): the queue local
    enq,       \* how often each person was appended to queue in this run
    rel        \* outcome of the last Family.relation call, or NoCall

vars == <<dict, status, gender, parents, spouse, pc, start, cdict, queue, enq, rel>>

\* Python's None, where a person is expected (persons are identified by number)
None == -1
\* Python's None, as the value relation_to returns
NoRelation == <<"None">>
\* rel while Family.relation has not been called
NoCall == [one |-> None, two |-> None, lcrpath |-> <<>>, ret |-> <<"NoCall">>]

-----------------------------------------------------------------------------
(* Bounds of the datasets that are explored.                               *)

MaxRefs == 2    \* parent references and couples of a general dataset, in all
ChainLen == 7   \* persons of a lineage dataset

\* An identifier that is not among the n individuals 1..n.
Stranger(n) == n + 1

GenderOf(i) == IF i % 2 = 1 THEN "f" ELSE "m"

\* dict["individuals"]
Individuals(n) == [i \in 1..n |-> GenderOf(i)]

Lists(S, n) == UNION {[1..m -> S] : m \in 0..n}

\* dict["parents"] holding the <<child, parent>> references refs: every child
\* named is a key, its list the parents named for it, in order.
ParentMap(refs) ==
    [c \in {refs[i][1] : i \in DOMAIN refs} |->
        LET own == SelectSeq(refs, LAMBDA r : r[1] = c)
        IN [i \in DOMAIN own |-> own[i][2]]]

Largest(m) == IF m = <<>> THEN 0 ELSE CHOOSE x \in {m[i] : i \in DOMAIN m} :
                                         \A i \in DOMAIN m : m[i] <= x

\* The identifiers a dataset names, in the order it names them, n in all.
\* Individuals are numbered in the order of their first mention (datasets that
\* differ in the names alone are one dataset); 0 stands for the stranger.
\* MentionsUpTo(n)[k + 1] holds the ways to name k identifiers.
RECURSIVE MentionsUpTo(_)
MentionsUpTo(n) ==
    IF n = 0 THEN <<{<<>>}>>
    ELSE LET shorter == MentionsUpTo(n - 1) IN
         Append(shorter,
                UNION {{Append(m, x) : x \in 0..(Largest(m) + 1)} : m \in shorter[n]})

\* Mentions[n + 1]: the ways to name n identifiers
Mentions == MentionsUpTo(2 * MaxRefs)

\* What a dataset is made of: the number of parent references, and which of
\* the couples are pairs ("C") and which are empty ("E").
Shapes ==
    {sh \in (0..MaxRefs) \X Lists({"C", "E"}, MaxRefs) : sh[1] + Len(sh[2]) <= MaxRefs}

CountC(ce, i) == Cardinality({j \in 1..i : ce[j] = "C"})

\* The dataset of shape sh that names the identifiers m.
MakeDataset(sh, m) ==
    LET n == IF Largest(m) = 0 THEN 1 ELSE Largest(m)
        name(x) == IF x = 0 THEN Stranger(n) ELSE x
        pair(k) == <<name(m[2 * k - 1]), name(m[2 * k])>>
    IN [individuals |-> Individuals(n),
        parents |-> ParentMap([k \in 1..sh[1] |-> pair(k)]),
        couples |-> [i \in DOMAIN sh[2] |->
                       IF sh[2][i] = "E" THEN <<>> ELSE pair(sh[1] + CountC(sh[2], i))]]

\* The identifiers a dataset of shape sh names: two for each parent reference
\* and each pair.
Slots(sh) == 2 * (sh[1] + CountC(sh[2], Len(sh[2])))

\* One lineage 1 -> 2 -> ... -> ChainLen (each person's parent is the next),
\* with no couple, one or two among its members.
LineagePairs == {p \in (1..ChainLen) \X (1..ChainLen) : p[1] < p[2]}

LineageDatasets ==
    {[individuals |-> Individuals(ChainLen),
      parents |-> [i \in 1..(ChainLen - 1) |-> <<i + 1>>],
      couples |-> cs] :
        cs \in {<<>>} \cup {<<p>> : p \in LineagePairs}
                      \cup {<<p, q>> : p, q \in LineagePairs}}

\* The dataset of the documented scenarios: Alice (1) and Bob (2) are the
\* children of Carol (3) and Dan (4); Alice married Eve (5).
Illustrative ==
    [individuals |-> Individuals(5),
     parents |-> [c \in {1, 2} |-> <<3, 4>>],
     couples |-> <<<<1, 5>>>>]

-----------------------------------------------------------------------------
(* Family.__init__                                                         *)

\* self.people after the first loop: one Person per key of dict["individuals"].
People(d) == DOMAIN d.individuals

\* self.people[name] raises KeyError
KeyError(ppl, name) == name \notin ppl

\* The second loop: self.people[person] for every key, self.people[parent]
\* for every listed parent.  TRUE when one of the lookups raises.
ParentsRaise(d) ==
    \E c \in DOMAIN d.parents :
        \/ KeyError(People(d), c)
        \/ \E i \in 1..Len(d.parents[c]) : KeyError(People(d), d.parents[c][i])

\* Person.parents after the second loop: add_parent appends in list order.
BuildParents(d) ==
    [p \in People(d) |-> IF p \in DOMAIN d.parents THEN d.parents[p] ELSE <<>>]

\* PairRaises when unknown names are passed over instead of looked up.
PairNeverRaises(ppl, pair) == FALSE

\* One pass of the third loop's body raises.
PairRaises(ppl, pair) ==
    /\ Len(pair) # 0
    /\ KeyError(ppl, pair[1]) \/ KeyError(ppl, pair[2])

CouplesRaise(d) ==
    \E i \in 1..Len(d.couples) : PairRaises(People(d), d.couples[i])

\* Person.set_spouse
set_spouse(sp, person, other) == [sp EXCEPT ![person] = other]

\* SetCouple without the second set_spouse call.
SetCoupleOneWay(sp, pair) ==
    IF Len(pair) # 0 THEN set_spouse(sp, pair[1], pair[2]) ELSE sp

\* The body of the third loop for one pair.
SetCouple(sp, pair) ==
    IF Len(pair) # 0
    THEN set_spouse(set_spouse(sp, pair[1], pair[2]), pair[2], pair[1])
    ELSE sp

RECURSIVE BuildSpouses(_, _)
BuildSpouses(sp, couples) ==
    IF couples = <<>> THEN sp
    ELSE BuildSpouses(SetCouple(sp, Head(couples)), Tail(couples))

FamilyInit ==
    /\ status = "loaded"
    /\ IF ParentsRaise(dict) \/ CouplesRaise(dict)
       THEN /\ status' = "failed"
            /\ UNCHANGED <<gender, parents, spouse>>
       ELSE /\ status' = "built"
            /\ gender' = dict.individuals
            /\ parents' = BuildParents(dict)
            /\ spouse' = BuildSpouses([p \in People(dict) |-> None], dict.couples)
    /\ UNCHANGED <<dict, pc, start, cdict, queue, enq, rel>>

-----------------------------------------------------------------------------
(* Person.connections                                                      *)

Keys(d) == {d[i][1] : i \in DOMAIN d}
Get(d, k) == d[CHOOSE i \in DOMAIN d : d[i][1] = k][2]
Values(d) == [i \in DOMAIN d |-> d[i][2]]

HasS(path) == \E i \in DOMAIN path : path[i] = "S"

\* VisitParents recording "P" alone instead of the path of the person plus "P".
RECURSIVE VisitParentsShortPath(_, _, _, _)
VisitParentsShortPath(cd, q, ps, personpath) ==
    IF ps = <<>> THEN <<cd, q>>
    ELSE LET parent == Head(ps) IN
         IF parent \in Keys(cd)
         THEN VisitParentsShortPath(cd, q, Tail(ps), personpath)
         ELSE VisitParentsShortPath(Append(cd, <<parent, <<"P">>>>),
                                    Append(q, parent), Tail(ps), personpath)

\* The for loop over person.parents: <<cdict, queue>> after it.
RECURSIVE VisitParents(_, _, _, _)
VisitParents(cd, q, ps, personpath) ==
    IF ps = <<>> THEN <<cd, q>>
    ELSE LET parent == Head(ps) IN
         IF parent \in Keys(cd)
         THEN VisitParents(cd, q, Tail(ps), personpath)
         ELSE VisitParents(Append(cd, <<parent, Append(personpath, "P")>>),
                           Append(q, parent), Tail(ps), personpath)

\* VisitSpouse without the test for an "S" in the path.
VisitSpouseAnyPath(cd, q, sp, personpath) ==
    IF sp # None /\ sp \notin Keys(cd)
    THEN <<Append(cd, <<sp, Append(personpath, "S")>>), Append(q, sp)>>
    ELSE <<cd, q>>

\* The if on the spouse: <<cdict, queue>> after it.
VisitSpouse(cd, q, sp, personpath) ==
    IF ~HasS(personpath) /\ sp # None /\ sp \notin Keys(cd)
    THEN <<Append(cd, <<sp, Append(personpath, "S")>>), Append(q, sp)>>
    ELSE <<cd, q>>

\* Iterate reading queue[0] without removing it.
IterateNoPop(cd, q) ==
    LET person == Head(q)
        personpath == Get(cd, person)
        afterParents == VisitParents(cd, q, parents[person], personpath)
    IN VisitSpouse(afterParents[1], afterParents[2], spouse[person], personpath)

\* One pass of the while loop: <<cdict, queue>> after it.
Iterate(cd, q) ==
    LET person == Head(q)
        personpath == Get(cd, person)
        afterParents == VisitParents(cd, Tail(q), parents[person], personpath)
    IN VisitSpouse(afterParents[1], afterParents[2], spouse[person], personpath)

RECURSIVE RunLoop(_, _)
RunLoop(cd, q) ==
    IF Len(q) # 0
    THEN LET s == Iterate(cd, q) IN RunLoop(s[1], s[2])
    ELSE cd

\* The dict connections() returns.
connections(self) == RunLoop(<<<<self, <<>>>>>>, <<self>>)

ConnectionsCall(self) ==
    /\ status = "built"
    /\ pc = "idle" /\ rel = NoCall
    /\ pc' = "loop"
    /\ start' = self
    /\ cdict' = <<<<self, <<>>>>>>
    /\ queue' = <<self>>
    /\ enq' = [p \in DOMAIN gender |-> IF p = self THEN 1 ELSE 0]
    /\ UNCHANGED <<dict, status, gender, parents, spouse, rel>>

\* ConnectionsIterate with the pass that leaves the person in the queue.
ConnectionsIterateNoPop ==
    /\ pc = "loop"
    /\ Len(queue) # 0
    /\ LET s == IterateNoPop(cdict, queue) IN
        /\ cdict' = s[1]
        /\ queue' = s[2]
        /\ enq' = [p \in DOMAIN enq |->
                     enq[p] + Cardinality({i \in (Len(cdict) + 1)..Len(s[1]) : s[1][i][1] = p})]
    /\ UNCHANGED <<dict, status, gender, parents, spouse, pc, start, rel>>

ConnectionsIterate ==
    /\ pc = "loop"
    /\ Len(queue) # 0
    /\ LET s == Iterate(cdict, queue) IN
        /\ cdict' = s[1]
        /\ queue' = s[2]
        \* every queue.append goes with one insertion into cdict
        /\ enq' = [p \in DOMAIN enq |->
                     enq[p] + Cardinality({i \in (Len(cdict) + 1)..Len(s[1]) : s[1][i][1] = p})]
    /\ UNCHANGED <<dict, status, gender, parents, spouse, pc, start, rel>>

ConnectionsReturn ==
    /\ pc = "loop"
    /\ Len(queue) = 0
    /\ pc' = "returned"
    /\ UNCHANGED <<dict, status, gender, parents, spouse, start, cdict, queue, enq, rel>>

-----------------------------------------------------------------------------
(* Person.relation_to and Family.relation                                  *)

\* relationships.relationships: the combined codes that have a term.  The
\* module is not part of the sources; these are the codes the specification
\* names.
relationships ==
    { <<"P", ":", "P">>, <<"P", ":">>, <<"S", ":">>, <<"P", ":", "S", "P">> }

\* relationships.relationships[lcrpath][gender]
Term(lcrpath, g) == <<"term", lcrpath, g>>
DistantRelative == <<"distant relative">>
RaisedKeyError == <<"KeyError">>
RaisedValueError == <<"ValueError">>

\* min() of an empty sequence raises ValueError
MinRaises(vals) == Len(vals) = 0

\* LcrIsEmpty written like the test before it, lcr.__len__ == 0.
LcrNeverEmpty(lcr) == FALSE

\* len(lcr) == 0
LcrIsEmpty(lcr) == Len(lcr) = 0

\* MinByLen taking the last of the values of least length.
MinByLenLast(vals) ==
    vals[CHOOSE i \in DOMAIN vals :
            /\ \A j \in DOMAIN vals : Len(vals[i]) <= Len(vals[j])
            /\ \A j \in (i + 1)..Len(vals) : Len(vals[j]) > Len(vals[i])]

\* MinByLen taking the first value whatever its length.
FirstValue(vals) == vals[1]

\* min(values, key = len): the first of the values of least length.
MinByLen(vals) ==
    vals[CHOOSE i \in DOMAIN vals :
            /\ \A j \in DOMAIN vals : Len(vals[i]) <= Len(vals[j])
            /\ \A j \in 1..(i - 1) : Len(vals[j]) > Len(vals[i])]

\* The keys of a dict in iteration order that pass a test.
RECURSIVE SharedKeys(_, _)
SharedKeys(selfconnections, personconnections) ==
    IF selfconnections = <<>> THEN <<>>
    ELSE LET key == Head(selfconnections)[1]
             rest == SharedKeys(Tail(selfconnections), personconnections)
         IN IF key \in Keys(personconnections) THEN <<key>> \o rest ELSE rest

\* f"{selfconnections[key]}:{personconnections[key]}"
Combined(selfconnections, personconnections, key) ==
    Get(selfconnections, key) \o <<":">> \o Get(personconnections, key)

\* [lcrpath, ret] of self.relation_to(other); lcrpath stays "" when the
\* method returns before choosing one.
relation_to(self, other) ==
    LET selfconnections == connections(self)
        personconnections == connections(other)
        sharedkeys == SharedKeys(selfconnections, personconnections)
        \* sharedkeys.__len__ == 0 compares a bound method with 0: never true
        lenMethodIsZero == FALSE
        lcr == [i \in DOMAIN sharedkeys |->
                  <<sharedkeys[i],
                    Combined(selfconnections, personconnections, sharedkeys[i])>>]
    IN IF lenMethodIsZero THEN [lcrpath |-> <<>>, ret |-> NoRelation]
       ELSE IF LcrIsEmpty(lcr) THEN [lcrpath |-> <<>>, ret |-> NoRelation]
       ELSE IF MinRaises(Values(lcr)) THEN [lcrpath |-> <<>>, ret |-> RaisedValueError]
       ELSE LET lcrpath == MinByLen(Values(lcr)) IN
            IF lcrpath \in relationships
            THEN [lcrpath |-> lcrpath, ret |-> Term(lcrpath, gender[self])]
            ELSE [lcrpath |-> lcrpath, ret |-> DistantRelative]

\* Family.relation(name_one, name_two)
Relation(name_one, name_two) ==
    /\ status = "built"
    /\ pc = "idle" /\ rel = NoCall
    /\ rel' = IF KeyError(DOMAIN gender, name_one) \/ KeyError(DOMAIN gender, name_two)
              THEN [one |-> name_one, two |-> name_two, lcrpath |-> <<>>, ret |-> RaisedKeyError]
              ELSE LET r == relation_to(name_one, name_two) IN
                   [one |-> name_one, two |-> name_two, lcrpath |-> r.lcrpath, ret |-> r.ret]
    /\ UNCHANGED <<dict, status, gender, parents, spouse, pc, start, cdict, queue, enq>>

\* The caller is done with what connections() or relation() returned; the
\* Family stays as built and takes the next call.
Discard ==
    /\ pc = "returned" \/ rel # NoCall
    /\ pc' = "idle"
    /\ start' = None
    /\ cdict' = <<>>
    /\ queue' = <<>>
    /\ enq' = <<>>
    /\ rel' = NoCall
    /\ UNCHANGED <<dict, status, gender, parents, spouse>>

-----------------------------------------------------------------------------

Init ==
    /\ \/ \E sh \in Shapes : \E m \in Mentions[Slots(sh) + 1] : dict = MakeDataset(sh, m)
       \/ dict \in LineageDatasets
       \/ dict = Illustrative
    /\ status = "loaded"
    /\ gender = <<>>
    /\ parents = <<>>
    /\ spouse = <<>>
    /\ pc = "idle"
    /\ start = None
    /\ cdict = <<>>
    /\ queue = <<>>
    /\ enq = <<>>
    /\ rel = NoCall

Next ==
    \/ FamilyInit
    \/ \E self \in DOMAIN gender : ConnectionsCall(self)
    \/ ConnectionsIterate
    \/ ConnectionsReturn
    \/ \E name_one, name_two \in DOMAIN gender \cup {Stranger(Len(gender))} :
          Relation(name_one, name_two)
    \/ Discard

Spec == Init /\ [][Next]_vars

\* The traversal alone: Family.relation is left out, it runs connections() to
\* its end within one step and leaves cdict and queue alone.
NextTraversal ==
    \/ FamilyInit
    \/ \E self \in DOMAIN gender : ConnectionsCall(self)
    \/ ConnectionsIterate
    \/ ConnectionsReturn
    \/ Discard

\* A call that is running goes on: the program is one thread and nothing
\* suspends it.
FairSpec ==
    /\ Init
    /\ [][NextTraversal]_vars
    /\ WF_vars(ConnectionsIterate)
    /\ WF_vars(ConnectionsReturn)

-----------------------------------------------------------------------------
(* What the claims speak of, stated without the traversal.                 *)

Registered == DOMAIN gender

Range(seq) == {seq[i] : i \in DOMAIN seq}

CountS(path) == Cardinality({i \in DOMAIN path : path[i] = "S"})

\* The persons one step takes a set of persons to.
StepFrom(S, step) ==
    IF step = "P" THEN UNION {Range(parents[p]) : p \in S}
    ELSE {spouse[p] : p \in S} \ {None}

\* The persons the walks along path from the persons S end at.
RECURSIVE Follow(_, _)
Follow(S, path) ==
    IF path = <<>> THEN S ELSE Follow(StepFrom(S, Head(path)), Tail(path))

\* <<person, spouse step taken>> for the ends of the walks of exactly n steps
\* from x that take at most one spouse step.
RECURSIVE WalkEnds(_, _)
WalkEnds(x, n) ==
    IF n = 0 THEN {<<x, FALSE>>}
    ELSE UNION {
           {<<q, e[2]>> : q \in Range(parents[e[1]])}
             \cup (IF ~e[2] /\ spouse[e[1]] # None THEN {<<spouse[e[1]], TRUE>>} ELSE {})
           : e \in WalkEnds(x, n - 1)}

EndsAt(x, n) == {e[1] : e \in WalkEnds(x, n)}

\* No shortest walk is longer than the number of <<person, taken>> pairs.
LongestWalk == 2 * Cardinality(Registered)

ReachableFrom(x) == UNION {EndsAt(x, n) : n \in 0..LongestWalk}

RelationCalled == rel # NoCall
BothRegistered == rel.one \in Registered /\ rel.two \in Registered

\* No person is named by two couples unless the two name the same people.
OneCouplePerPerson(couples) ==
    \A i, j \in DOMAIN couples :
        Range(couples[i]) \cap Range(couples[j]) # {}
            => Range(couples[i]) = Range(couples[j])

\* The identifiers the parent and couple data name.
Named(d) ==
    DOMAIN d.parents
      \cup UNION {Range(d.parents[c]) : c \in DOMAIN d.parents}
      \cup UNION {Range(d.couples[i]) : i \in DOMAIN d.couples}

MutualSpouses(a, b) ==
    /\ a # b
    /\ spouse[a] = b /\ spouse[b] = a
    /\ a \notin Range(parents[b]) /\ b \notin Range(parents[a])

\* The traversal taken pass by pass ends with the dict that connections(),
\* as relation_to calls it, returns.
StepsAgreeWithCall == pc = "returned" => cdict = connections(start)

-----------------------------------------------------------------------------
(* The claims.                                                             *)

\* C1: when connections() returns, no walk from the start to a key that takes
\* at most one spouse step is shorter than the path recorded for the key
\* (stated for the datasets in which no person is named by two couples, where
\* every spouse link is mutual).
C1_ShortestPath ==
    (pc = "returned" /\ OneCouplePerPerson(dict.couples)) =>
        \A i \in DOMAIN cdict :
            \A n \in 0..(Len(cdict[i][2]) - 1) : cdict[i][1] \notin EndsAt(start, n)

\* C2 as stated: once the Family is built, whatever couples the dataset
\* lists, the spouse of a person's spouse is that person.
C2_SpouseSymmetryAnyCouples ==
    status = "built" =>
        \A x \in Registered : spouse[x] # None => spouse[spouse[x]] = x

\* C2 as amended: once the Family is built from a dataset in which no person
\* is named by two different couples, the spouse of a person's spouse is that
\* person, during and after connections() and relation() as well.
C2_SpouseSymmetry ==
    (status = "built" /\ OneCouplePerPerson(dict.couples)) =>
        \A x \in Registered : spouse[x] # None => spouse[spouse[x]] = x

C2_Witness ==
    /\ status = "built"
    /\ Len(dict.couples) = 2
    /\ OneCouplePerPerson(dict.couples)
    /\ \E x \in Registered : spouse[x] # None /\ spouse[x] # x
    /\ RelationCalled

\* C3: at every point of connections(), every recorded path holds at most one
\* "S", and a path that ends in "S" holds none before it.
C3_AtMostOneS ==
    \A i \in DOMAIN cdict :
        LET path == cdict[i][2] IN
        /\ CountS(path) <= 1
        /\ (Len(path) > 0 /\ path[Len(path)] = "S") => ~HasS(SubSeq(path, 1, Len(path) - 1))

\* a person reached by a path with an "S" whose own spouse was left out
C3_Witness ==
    /\ pc = "returned"
    /\ \E i \in DOMAIN cdict :
          /\ HasS(cdict[i][2])
          /\ spouse[cdict[i][1]] # None
          /\ spouse[cdict[i][1]] \notin Keys(cdict)

\* C4: relation_to returns None exactly when the two key sets of
\* connections() share no person, and a term or "distant relative" otherwise.
C4_NoRelation ==
    (RelationCalled /\ BothRegistered) =>
        LET shared == Keys(connections(rel.one)) \cap Keys(connections(rel.two)) IN
        /\ (rel.ret = NoRelation) <=> (shared = {})
        /\ shared # {} => rel.ret[1] \in {"term", "distant relative"}

C4_Witness ==
    /\ RelationCalled /\ BothRegistered
    /\ rel.ret = NoRelation
    /\ \E p \in Registered : parents[p] # <<>>

\* C5: construction fails exactly when the parent or couple data name an
\* identifier that is no individual (empty pairs name none), and relation()
\* raises when a name is not registered.
C5_UnknownIndividual ==
    /\ status # "loaded" =>
          IF Named(dict) \subseteq DOMAIN dict.individuals
          THEN status = "built" ELSE status = "failed"
    /\ (RelationCalled /\ ~BothRegistered) => rel.ret = RaisedKeyError

\* construction fails on a couple that follows an empty pair
C5_Witness ==
    /\ status = "failed"
    /\ DOMAIN dict.parents \subseteq DOMAIN dict.individuals
    /\ Len(dict.couples) = 2
    /\ dict.couples[1] = <<>>
    /\ Stranger(Len(dict.individuals)) \in Range(dict.couples[2])

\* C6 as stated: for mutual spouses, neither a parent of the other, the
\* combined code relation_to looks up is "S:".
C6_SpouseCodeSFirst ==
    (RelationCalled /\ BothRegistered /\ MutualSpouses(rel.one, rel.two)) =>
        rel.lcrpath = <<"S", ":">>

\* C6 as amended: for mutual spouses, neither a parent of the other, the
\* combined code relation_to looks up is ":S".
C6_SpouseCode ==
    (RelationCalled /\ BothRegistered /\ MutualSpouses(rel.one, rel.two)) =>
        rel.lcrpath = <<":", "S">>

\* Alice and Eve of the documented scenarios
C6_Witness ==
    /\ dict = Illustrative
    /\ RelationCalled
    /\ rel.one = 1 /\ rel.two = 5
    /\ MutualSpouses(rel.one, rel.two)

\* C7: no person is appended to the queue twice in one run of connections(),
\* and every run returns.
C7_Termination ==
    /\ [](\A p \in DOMAIN enq : enq[p] <= 1)
    /\ (pc = "loop") ~> (pc = "returned")

\* a run that returned on a graph where a person is its own ancestor
C7_Witness ==
    /\ pc = "returned"
    /\ \E p \in Keys(cdict) :
          p \in Follow({p}, <<"P">>) \cup Follow({p}, <<"P", "P">>)
    /\ \A p \in Keys(cdict) : enq[p] = 1

\* C8: when connections() returns, every person some walk from the start
\* with at most one spouse step ends at is a key (stated for the datasets in
\* which no person is named by two couples, where every spouse link is mutual).
C8_Completeness ==
    (pc = "returned" /\ OneCouplePerPerson(dict.couples)) =>
        ReachableFrom(start) \subseteq Keys(cdict)

\* C9: when the two key sets share a person, the code looked up is the
\* combined code of a shared person, no shared person has a shorter one, and
\* the value returned is its term for the first person's gender, or
\* "distant relative" when the table lacks the code.
C9_MostSpecific ==
    (RelationCalled /\ BothRegistered) =>
        LET pathsA == connections(rel.one)
            pathsB == connections(rel.two)
            shared == Keys(pathsA) \cap Keys(pathsB)
        IN shared # {} =>
            /\ \E k \in shared :
                  rel.lcrpath = Get(pathsA, k) \o <<":">> \o Get(pathsB, k)
            /\ \A k \in shared :
                  Len(rel.lcrpath) <= Len(Get(pathsA, k)) + 1 + Len(Get(pathsB, k))
            /\ rel.ret = IF rel.lcrpath \in relationships
                         THEN Term(rel.lcrpath, gender[rel.one])
                         ELSE DistantRelative

\* a term is returned, and the first shared person in the order of the first
\* dict has a longer combined code than the one looked up
C9_Witness ==
    /\ RelationCalled /\ BothRegistered
    /\ rel.ret[1] = "term"
    /\ LET pathsA == connections(rel.one)
           pathsB == connections(rel.two)
           sharedkeys == SharedKeys(pathsA, pathsB)
       IN /\ sharedkeys # <<>>
          /\ Len(Combined(pathsA, pathsB, sharedkeys[1])) > Len(rel.lcrpath)

\* C10: at every point of connections(), the start is the first key, with the
\* empty path, and every key is where some walk along its path from the
\* start ends.
C10_PathValidity ==
    pc \in {"loop", "returned"} =>
        /\ cdict[1] = <<start, <<>>>>
        /\ \A i \in DOMAIN cdict : cdict[i][1] \in Follow({start}, cdict[i][2])

C10_Witness ==
    /\ pc = "returned"
    /\ \E i \in DOMAIN cdict :
          /\ Len(cdict[i][2]) >= 3
          /\ HasS(cdict[i][2])

====
